---- MODULE Spec2Model ----
(***************************************************************************)
(* KeyVal: an in-memory key-value store (src/src/store.rs) behind a        *)
(* line-oriented command interpreter (src/src/command.rs) served to        *)
(* concurrent connections under one store-wide lock (src/src/server.rs).   *)
(*                                                                         *)
(* Strings that the program inspects (Text values, list elements, hash     *)
(* values, keys, request tokens) are sequences of one-character strings,   *)
(* so that parsing an integer and printing one are computed and are not    *)
(* the identity.  Hash field names are only compared and are TLA+ strings. *)
(*                                                                         *)
(* TLC integers are 32 bits wide, so the i64 of the program is modelled    *)
(* as a two's-complement integer of IntBits bits.  The monotonic clock     *)
(* (Instant) counts ticks, TicksPerSec of them to a second.                *)
(***************************************************************************)
EXTENDS Integers, Sequences, FiniteSets, TLC

\* ---------------------------------------------------------------- bounds
MaxTime == 3
TicksPerSec == 2
IntBits == 3
MaxLen == 3

\* ---------------------------------------------------------------- inputs
Keys == {<<"k">>}
Fields == {"f"}
Elems == {<<"a">>, <<"b">>}
Secs == {0, 1}
Deltas == {-1, 1, 2}

I64_MAX == 2 ^ (IntBits - 1) - 1
I64_MIN == -(2 ^ (IntBits - 1))

\* ------------------------------------------------ results of operations
\* One record shape for each result type, so that equal field names always
\* hold values of one type.
None == [none |-> TRUE]
Some(x) == [some |-> x]
SomeInt(n) == [some_int |-> n]
SomeStr(x) == [some_str |-> x]
SomeList(l) == [some_list |-> l]
SomeHash(h) == [some_hash |-> h]
Bool(b) == [bool |-> b]
Usize(n) == [usize |-> n]
Unit == [unit |-> TRUE]
Panic == [panic |-> TRUE]

\* ------------------------------------------------------- value.rs: Value
String(s) == [tag |-> "String", s |-> s]
List(l) == [tag |-> "List", l |-> l]
Hash(h) == [tag |-> "Hash", h |-> h]
HashSet(e) == [tag |-> "Set", e |-> e]

is_string(value) == value.tag = "String"
is_list(value) == value.tag = "List"
is_hash(value) == value.tag = "Hash"
is_set(value) == value.tag = "Set"

len(value) ==
    CASE value.tag = "String" -> Len(value.s)
      [] value.tag = "List" -> Len(value.l)
      [] value.tag = "Hash" -> Cardinality(DOMAIN value.h)
      [] value.tag = "Set" -> Cardinality(value.e)

\* --------------------------------------- str::parse::<i64> and to_string
Digits == <<"0", "1", "2", "3", "4", "5", "6", "7", "8", "9">>
IsDigit(c) == \E i \in 1..10 : Digits[i] = c
DigitVal(c) == (CHOOSE i \in 1..10 : Digits[i] = c) - 1

RECURSIVE digits_value(_)
digits_value(ds) ==
    IF ds = <<>> THEN 0
    ELSE 10 * digits_value(SubSeq(ds, 1, Len(ds) - 1)) + DigitVal(ds[Len(ds)])

\* An optional sign, then one or more decimal digits, the value within i64.
parse_i64(s) ==
    LET signed == s # <<>> /\ s[1] \in {"+", "-"}
        ds == IF signed THEN Tail(s) ELSE s
        n == IF signed /\ s[1] = "-" THEN -digits_value(ds) ELSE digits_value(ds)
    IN  IF ds = <<>> \/ \E i \in 1..Len(ds) : ~IsDigit(ds[i]) THEN [ok |-> FALSE]
        ELSE IF n < I64_MIN \/ n > I64_MAX THEN [ok |-> FALSE]
        ELSE [ok |-> TRUE, v |-> n]

RECURSIVE nat_string(_)
nat_string(n) ==
    IF n < 10 THEN <<Digits[n + 1]>>
    ELSE nat_string(n \div 10) \o <<Digits[(n % 10) + 1]>>

to_string(n) == IF n < 0 THEN <<"-">> \o nat_string(-n) ELSE nat_string(n)

\* i64 arithmetic: the sum as the hardware wraps it.
in_i64(x) == I64_MIN <= x /\ x <= I64_MAX
wrapping(x) == ((x - I64_MIN) % (2 ^ IntBits)) + I64_MIN

\* ------------------------------------------------- HashMap insert/remove
map_insert(m, key, x) == [j \in (DOMAIN m) \cup {key} |-> IF j = key THEN x ELSE m[j]]
map_remove(m, key) == [j \in (DOMAIN m) \ {key} |-> m[j]]
EmptyMap == [j \in {} |-> 0]

\* ------------------------------------------------------- store.rs: Store
new == [data |-> EmptyMap, expiry |-> EmptyMap]

\* mutant of set: the expiration of the key is left in place
set_keeps_expiry(s, key, value) ==
    [data |-> map_insert(s.data, key, value), expiry |-> s.expiry]

set(s, key, value) ==
    [data |-> map_insert(s.data, key, value), expiry |-> map_remove(s.expiry, key)]

\* t is the reading of Instant::now()
get(s, t, key) ==
    IF key \in DOMAIN s.expiry /\ t > s.expiry[key]
    THEN [store |-> [data |-> map_remove(s.data, key),
                     expiry |-> map_remove(s.expiry, key)],
          res |-> None]
    ELSE [store |-> s,
          res |-> IF key \in DOMAIN s.data THEN Some(s.data[key]) ELSE None]

\* mutant of del: only the value is removed
del_keeps_expiry(s, key) ==
    [store |-> [data |-> map_remove(s.data, key), expiry |-> s.expiry],
     res |-> Bool(key \in DOMAIN s.data)]

del(s, key) ==
    [store |-> [data |-> map_remove(s.data, key), expiry |-> map_remove(s.expiry, key)],
     res |-> Bool(key \in DOMAIN s.data)]

expire(s, t, key, duration) ==
    IF key \in DOMAIN s.data
    THEN [store |-> [data |-> s.data,
                     expiry |-> map_insert(s.expiry, key, t + duration * TicksPerSec)],
          res |-> Bool(TRUE)]
    ELSE [store |-> s, res |-> Bool(FALSE)]

\* Instant::duration_since saturates at zero
duration_since(later, earlier) == IF later > earlier THEN later - earlier ELSE 0
as_secs(d) == d \div TicksPerSec

\* t and t2 are the two successive readings of Instant::now(), t <= t2
ttl(s, t, t2, key) ==
    IF key \in DOMAIN s.expiry
    THEN IF t < s.expiry[key]
         THEN [store |-> s, res |-> SomeInt(as_secs(duration_since(s.expiry[key], t2)))]
         ELSE [store |-> [data |-> map_remove(s.data, key),
                          expiry |-> map_remove(s.expiry, key)],
               res |-> SomeInt(-1)]
    ELSE IF key \in DOMAIN s.data
         THEN [store |-> s, res |-> SomeInt(-1)]
         ELSE [store |-> s, res |-> SomeInt(-2)]

\* mutant of incr_by_current: Text that does not parse counts as 0
incr_by_current_default_zero(s, got, key, by, overflow_checks) ==
    IF got = None THEN [store |-> s, res |-> None]
    ELSE LET current == got.some IN
    IF ~is_string(current) THEN [store |-> s, res |-> None]
    ELSE LET p == parse_i64(current.s)
             n == IF p.ok THEN p.v ELSE 0
         IN  IF ~in_i64(n + by) /\ overflow_checks THEN [store |-> s, res |-> Panic]
             ELSE LET new_value == wrapping(n + by) IN
                  [store |-> set(s, key, String(to_string(new_value))),
                   res |-> SomeInt(new_value)]

\* incr_by after its get: got is what get returned.  n + by
\* overflowing panics in a build with overflow checks and wraps otherwise.
incr_by_current(s, got, key, by, overflow_checks) ==
    IF got = None THEN [store |-> s, res |-> None]
    ELSE LET current == got.some IN
    IF ~is_string(current) THEN [store |-> s, res |-> None]
    ELSE LET p == parse_i64(current.s) IN
         IF ~p.ok THEN [store |-> s, res |-> None]
         ELSE IF ~in_i64(p.v + by) /\ overflow_checks THEN [store |-> s, res |-> Panic]
         ELSE LET new_value == wrapping(p.v + by) IN
              [store |-> set(s, key, String(to_string(new_value))),
               res |-> SomeInt(new_value)]

incr_by(s, t, key, by, overflow_checks) ==
    LET g == get(s, t, key) IN incr_by_current(g.store, g.res, key, by, overflow_checks)

\* ------------------------------------------------ VecDeque<String> helpers
RECURSIVE push_front_all(_, _)
push_front_all(list, value) ==
    IF value = <<>> THEN list
    ELSE push_front_all(<<Head(value)>> \o list, Tail(value))

remove_at(list, pos) == SubSeq(list, 1, pos - 1) \o SubSeq(list, pos + 1, Len(list))
contains(list, x) == \E i \in 1..Len(list) : list[i] = x
position(list, x) == CHOOSE i \in 1..Len(list) :
                        list[i] = x /\ \A j \in 1..(i - 1) : list[j] # x
rposition(list, x) == CHOOSE i \in 1..Len(list) :
                        list[i] = x /\ \A j \in (i + 1)..Len(list) : list[j] # x
retain_ne(list, x) == SelectSeq(list, LAMBDA y : y # x)
count_eq(list, x) == Cardinality({i \in 1..Len(list) : list[i] = x})

\* the current value as a list, or a fresh VecDeque::new()
holds_list(current) == current # None /\ is_list(current.some)
holds_hash(current) == current # None /\ is_hash(current.some)
list_or_new(current) ==
    IF holds_list(current) THEN current.some.l ELSE <<>>

\* ------------------------------------------------------ store.rs: lists
\* Every list operation is `let current = self.get(key)` followed by the
\* rest of its body; X_current is that rest, given what get returned.
\* mutant of lpush_current: the values go to the back
lpush_current_push_back(s, current, key, value) ==
    LET list == list_or_new(current) \o value IN
    [store |-> set(s, key, List(list)), res |-> Usize(Len(list))]

lpush_current(s, current, key, value) ==
    LET list == push_front_all(list_or_new(current), value) IN
    [store |-> set(s, key, List(list)), res |-> Usize(Len(list))]

lpush(s, t, key, value) ==
    LET g == get(s, t, key) IN lpush_current(g.store, g.res, key, value)

rpush_current(s, current, key, value) ==
    LET list == list_or_new(current) \o value IN
    [store |-> set(s, key, List(list)), res |-> Usize(Len(list))]

rpush(s, t, key, value) ==
    LET g == get(s, t, key) IN rpush_current(g.store, g.res, key, value)

lpop_current(s, current, key) ==
    IF holds_list(current)
    THEN LET list == current.some.l IN
         IF list = <<>>
         THEN [store |-> set(s, key, List(list)), res |-> None]
         ELSE [store |-> set(s, key, List(Tail(list))), res |-> SomeStr(Head(list))]
    ELSE [store |-> s, res |-> None]

lpop(s, t, key) ==
    LET g == get(s, t, key) IN lpop_current(g.store, g.res, key)

\* mutant of rpop_current: the front element is taken
rpop_current_pop_front(s, current, key) ==
    IF holds_list(current)
    THEN LET list == current.some.l IN
         IF list = <<>>
         THEN [store |-> set(s, key, List(list)), res |-> None]
         ELSE [store |-> set(s, key, List(Tail(list))), res |-> SomeStr(Head(list))]
    ELSE [store |-> s, res |-> None]

rpop_current(s, current, key) ==
    IF holds_list(current)
    THEN LET list == current.some.l IN
         IF list = <<>>
         THEN [store |-> set(s, key, List(list)), res |-> None]
         ELSE [store |-> set(s, key, List(SubSeq(list, 1, Len(list) - 1))),
               res |-> SomeStr(list[Len(list)])]
    ELSE [store |-> s, res |-> None]

rpop(s, t, key) ==
    LET g == get(s, t, key) IN rpop_current(g.store, g.res, key)

llen_current(s, current) ==
    [store |-> s, res |-> IF holds_list(current) THEN SomeInt(Len(current.some.l)) ELSE None]

llen(s, t, key) ==
    LET g == get(s, t, key) IN llen_current(g.store, g.res)

\* index, start and end are usize, counted from 0
lindex_current(s, current, index) ==
    [store |-> s,
     res |-> IF holds_list(current) /\ index < Len(current.some.l)
             THEN SomeStr(current.some.l[index + 1]) ELSE None]

lindex(s, t, key, index) ==
    LET g == get(s, t, key) IN lindex_current(g.store, g.res, index)

lset_current(s, current, key, index, value) ==
    IF holds_list(current) /\ index < Len(current.some.l)
    THEN [store |-> set(s, key, List([current.some.l EXCEPT ![index + 1] = value])),
          res |-> Bool(TRUE)]
    ELSE [store |-> s, res |-> Bool(FALSE)]

lset(s, t, key, index, value) ==
    LET g == get(s, t, key) IN lset_current(g.store, g.res, key, index, value)

\* mutant of lrange_current: start = end is accepted
lrange_current_single(s, current, start, end) ==
    [store |-> s,
     res |-> IF holds_list(current) /\ start <= end
                /\ start < Len(current.some.l) /\ end < Len(current.some.l)
             THEN SomeList(SubSeq(current.some.l, start + 1, end + 1)) ELSE None]

lrange_current(s, current, start, end) ==
    [store |-> s,
     res |-> IF holds_list(current) /\ start < end
                /\ start < Len(current.some.l) /\ end < Len(current.some.l)
             THEN SomeList(SubSeq(current.some.l, start + 1, end + 1)) ELSE None]

lrange(s, t, key, start, end) ==
    LET g == get(s, t, key) IN lrange_current(g.store, g.res, start, end)

\* the loops of lrem: remove matches from one end until removed = limit
RECURSIVE lrem_front(_, _, _, _)
lrem_front(list, value, removed, limit) ==
    IF contains(list, value)
    THEN LET rest == remove_at(list, position(list, value)) IN
         IF removed + 1 = limit THEN [list |-> rest, removed |-> removed + 1]
         ELSE lrem_front(rest, value, removed + 1, limit)
    ELSE [list |-> list, removed |-> removed]

RECURSIVE lrem_back(_, _, _, _)
lrem_back(list, value, removed, limit) ==
    IF contains(list, value)
    THEN LET rest == remove_at(list, rposition(list, value)) IN
         IF removed + 1 = limit THEN [list |-> rest, removed |-> removed + 1]
         ELSE lrem_back(rest, value, removed + 1, limit)
    ELSE [list |-> list, removed |-> removed]

\* (-count) as usize: -i64::MIN overflows, which panics in a build with
\* overflow checks the first time the comparison is reached and otherwise
\* wraps to a usize no removal count equals (modelled by -1).
lrem_current(s, current, key, count, value, overflow_checks) ==
    IF holds_list(current)
    THEN LET list == current.some.l
             r == IF count > 0 THEN lrem_front(list, value, 0, count)
                  ELSE IF count < 0
                       THEN lrem_back(list, value, 0, IF count = I64_MIN THEN -1 ELSE -count)
                  ELSE [list |-> retain_ne(list, value), removed |-> count_eq(list, value)]
         IN  IF count = I64_MIN /\ overflow_checks /\ contains(list, value)
             THEN [store |-> s, res |-> Panic]
             ELSE [store |-> set(s, key, List(r.list)), res |-> Usize(r.removed)]
    ELSE [store |-> s, res |-> Usize(0)]

lrem(s, t, key, count, value, overflow_checks) ==
    LET g == get(s, t, key) IN
    lrem_current(g.store, g.res, key, count, value, overflow_checks)

\* ----------------------------------------------------- store.rs: hashes
\* mutant of hset: the Hash is stored without touching the expiration
hset_keeps_expiry(s, t, key, field, value) ==
    LET g == get(s, t, key)
        hash == IF holds_hash(g.res) THEN g.res.some.h ELSE EmptyMap
    IN  [store |-> [data |-> map_insert(g.store.data, key,
                                        Hash(map_insert(hash, field, value))),
                    expiry |-> g.store.expiry],
         res |-> Bool(field \in DOMAIN hash)]

hset(s, t, key, field, value) ==
    LET g == get(s, t, key)
        hash == IF holds_hash(g.res) THEN g.res.some.h ELSE EmptyMap
    IN  [store |-> set(g.store, key, Hash(map_insert(hash, field, value))),
         res |-> Bool(field \in DOMAIN hash)]

hget(s, t, key, field) ==
    LET g == get(s, t, key) IN
    [store |-> g.store,
     res |-> IF holds_hash(g.res) /\ field \in DOMAIN g.res.some.h
             THEN SomeStr(g.res.some.h[field]) ELSE None]

hdel(s, t, key, field) ==
    LET g == get(s, t, key) IN
    IF holds_hash(g.res)
    THEN [store |-> set(g.store, key, Hash(map_remove(g.res.some.h, field))),
          res |-> Bool(field \in DOMAIN g.res.some.h)]
    ELSE [store |-> g.store, res |-> Bool(FALSE)]

hlen(s, t, key) ==
    LET g == get(s, t, key) IN
    [store |-> g.store,
     res |-> IF holds_hash(g.res) THEN SomeInt(Cardinality(DOMAIN g.res.some.h)) ELSE None]

hget_all(s, t, key) ==
    LET g == get(s, t, key) IN
    [store |-> g.store, res |-> IF holds_hash(g.res) THEN SomeHash(g.res.some.h) ELSE None]

hincr_by(s, t, key, field, by, overflow_checks) ==
    LET g == get(s, t, key) IN
    IF holds_hash(g.res)
    THEN LET hash == g.res.some.h IN
         IF field \in DOMAIN hash
         THEN LET p == parse_i64(hash[field]) IN
              IF ~p.ok THEN [store |-> g.store, res |-> None]
              ELSE IF ~in_i64(p.v + by) /\ overflow_checks
                   THEN [store |-> g.store, res |-> Panic]
              ELSE LET new_value == wrapping(p.v + by) IN
                   [store |-> set(g.store, key,
                                  Hash(map_insert(hash, field, to_string(new_value)))),
                    res |-> SomeInt(new_value)]
         ELSE [store |-> set(g.store, key, Hash(map_insert(hash, field, to_string(by)))),
               res |-> SomeInt(by)]
    ELSE [store |-> g.store, res |-> None]

\* ------------------------------------------------ command.rs: Command
Ping == [cmd |-> "Ping"]
Quit == [cmd |-> "Quit"]
Set(key, value) == [cmd |-> "Set", key |-> key, value |-> value]
Get(key) == [cmd |-> "Get", key |-> key]
Del(key) == [cmd |-> "Del", key |-> key]
Expire(key, time) == [cmd |-> "Expire", key |-> key, time |-> time]
TTL(key) == [cmd |-> "TTL", key |-> key]
Exists(key) == [cmd |-> "Exists", key |-> key]
Strlen(key) == [cmd |-> "Strlen", key |-> key]
IncrBy(key, by) == [cmd |-> "IncrBy", key |-> key, by |-> by]
DecrBy(key, by) == [cmd |-> "DecrBy", key |-> key, by |-> by]
Incr(key) == [cmd |-> "Incr", key |-> key]
Decr(key) == [cmd |-> "Decr", key |-> key]
LPush(key, values) == [cmd |-> "LPush", key |-> key, values |-> values]
RPush(key, values) == [cmd |-> "RPush", key |-> key, values |-> values]
LPop(key) == [cmd |-> "LPop", key |-> key]
RPop(key) == [cmd |-> "RPop", key |-> key]
LRange(key, start, end) == [cmd |-> "LRange", key |-> key, start |-> start, end |-> end]
LRem(key, count, elem) == [cmd |-> "LRem", key |-> key, count |-> count, elem |-> elem]
LIndex(key, index) == [cmd |-> "LIndex", key |-> key, index |-> index]
LSet(key, index, elem) == [cmd |-> "LSet", key |-> key, index |-> index, elem |-> elem]
LLen(key) == [cmd |-> "LLen", key |-> key]

\* ---------------------------------------------- command.rs: Command::parse
IsSpace(c) == c \in {" ", "\t", "\n", "\r"}

\* str::split_whitespace: the maximal runs of non-whitespace characters
RECURSIVE split_from(_, _, _)
split_from(input, word, parts) ==
    IF input = <<>> THEN (IF word = <<>> THEN parts ELSE Append(parts, word))
    ELSE IF IsSpace(Head(input))
         THEN split_from(Tail(input), <<>>, IF word = <<>> THEN parts ELSE Append(parts, word))
         ELSE split_from(Tail(input), Append(word, Head(input)), parts)
split_whitespace(input) == split_from(input, <<>>, <<>>)

Lower == <<"a", "b", "c", "d", "e", "f", "g", "h", "i", "j", "k", "l", "m",
           "n", "o", "p", "q", "r", "s", "t", "u", "v", "w", "x", "y", "z">>
Upper == <<"A", "B", "C", "D", "E", "F", "G", "H", "I", "J", "K", "L", "M",
           "N", "O", "P", "Q", "R", "S", "T", "U", "V", "W", "X", "Y", "Z">>
upper_char(c) == IF \E i \in 1..26 : Lower[i] = c
                 THEN Upper[CHOOSE i \in 1..26 : Lower[i] = c] ELSE c
to_uppercase(w) == [i \in 1..Len(w) |-> upper_char(w[i])]

\* str::parse::<u64> and ::<usize>: an optional +, then decimal digits
U64_MAX == 2 ^ IntBits - 1
parse_u64(w) ==
    LET ds == IF w # <<>> /\ w[1] = "+" THEN Tail(w) ELSE w IN
    IF ds = <<>> \/ \E i \in 1..Len(ds) : ~IsDigit(ds[i]) THEN [ok |-> FALSE]
    ELSE IF digits_value(ds) > U64_MAX THEN [ok |-> FALSE]
    ELSE [ok |-> TRUE, v |-> digits_value(ds)]

Ok(command) == [command |-> command]
Err(msg) == [err |-> msg]

parse(input) ==
    LET parts == split_whitespace(input) IN
    IF parts = <<>> THEN Err(<<"Empty command">>)
    ELSE
    LET cmd == to_uppercase(parts[1])
        args == Tail(parts)
        n == Len(args)
    IN  CASE cmd = <<"S", "E", "T">> /\ n = 2 -> Ok(Set(args[1], String(args[2])))
          [] cmd = <<"G", "E", "T">> /\ n = 1 -> Ok(Get(args[1]))
          [] cmd = <<"D", "E", "L">> /\ n = 1 -> Ok(Del(args[1]))
          [] cmd = <<"E", "X", "P", "I", "R", "E">> /\ n = 2 ->
                LET time == parse_u64(args[2]) IN
                IF time.ok THEN Ok(Expire(args[1], time.v)) ELSE Err(<<"Invalid time">>)
          [] cmd = <<"T", "T", "L">> /\ n = 1 -> Ok(TTL(args[1]))
          [] cmd = <<"E", "X", "I", "S", "T", "S">> /\ n = 1 -> Ok(Exists(args[1]))
          [] cmd = <<"S", "T", "R", "L", "E", "N">> /\ n = 1 -> Ok(Strlen(args[1]))
          [] cmd = <<"I", "N", "C", "R", "B", "Y">> /\ n = 2 ->
                LET value == parse_i64(args[2]) IN
                IF value.ok THEN Ok(IncrBy(args[1], value.v)) ELSE Err(<<"Invalid value">>)
          [] cmd = <<"D", "E", "C", "R", "B", "Y">> /\ n = 2 ->
                LET value == parse_i64(args[2]) IN
                IF value.ok THEN Ok(DecrBy(args[1], value.v)) ELSE Err(<<"Invalid value">>)
          [] cmd = <<"I", "N", "C", "R">> /\ n = 1 -> Ok(Incr(args[1]))
          [] cmd = <<"D", "E", "C", "R">> /\ n = 1 -> Ok(Decr(args[1]))
          [] cmd = <<"L", "P", "U", "S", "H">> /\ n >= 2 -> Ok(LPush(args[1], Tail(args)))
          [] cmd = <<"R", "P", "U", "S", "H">> /\ n >= 2 -> Ok(RPush(args[1], Tail(args)))
          [] cmd = <<"L", "P", "O", "P">> /\ n = 1 -> Ok(LPop(args[1]))
          [] cmd = <<"R", "P", "O", "P">> /\ n = 1 -> Ok(RPop(args[1]))
          [] cmd = <<"L", "R", "A", "N", "G", "E">> /\ n = 3 ->
                LET start == parse_u64(args[2])
                    end == parse_u64(args[3])
                IN  IF ~start.ok THEN Err(<<"Invalid start">>)
                    ELSE IF ~end.ok THEN Err(<<"Invalid end">>)
                    ELSE Ok(LRange(args[1], start.v, end.v))
          [] cmd = <<"L", "R", "E", "M">> /\ n = 3 ->
                LET count == parse_i64(args[2]) IN
                IF count.ok THEN Ok(LRem(args[1], count.v, args[3]))
                ELSE Err(<<"Invalid count">>)
          [] cmd = <<"L", "I", "N", "D", "E", "X">> /\ n = 2 ->
                LET index == parse_u64(args[2]) IN
                IF index.ok THEN Ok(LIndex(args[1], index.v)) ELSE Err(<<"Invalid index">>)
          [] cmd = <<"L", "S", "E", "T">> /\ n = 3 ->
                LET index == parse_u64(args[2]) IN
                IF index.ok THEN Ok(LSet(args[1], index.v, args[3]))
                ELSE Err(<<"Invalid index">>)
          [] cmd = <<"L", "L", "E", "N">> /\ n = 1 -> Ok(LLen(args[1]))
          [] cmd = <<"P", "I", "N", "G">> /\ n = 0 -> Ok(Ping)
          [] cmd = <<"Q", "U", "I", "T">> /\ n = 0 -> Ok(Quit)
          [] OTHER -> Err(<<"Unknown or malformed command: ">> \o cmd)

\* mutant of is_quit: no command ends the loop
is_quit_never(command) == FALSE

is_quit(command) == command.cmd = "Quit"

\* -------------------------------------------- command.rs: Command::execute
CRLF == <<"\r", "\n">>
OK == <<"+", "O", "K">> \o CRLF
PONG == <<"+", "P", "O", "N", "G">> \o CRLF
NIL == <<"$", "-", "1">> \o CRLF
ERR_NOT_INTEGER == <<"-", "E", "R", "R", " ", "value is not an integer or out of range">> \o CRLF
ERR_INDEX == <<"-", "E", "R", "R", " ", "index out of range">> \o CRLF

\* {:?} of a String: the text in double quotes (the model's texts hold no
\* character that Debug escapes)
debug_str(x) == <<"\"">> \o x \o <<"\"">>

RECURSIVE debug_list(_)
debug_list(l) ==
    IF l = <<>> THEN <<>>
    ELSE IF Len(l) = 1 THEN debug_str(l[1])
    ELSE debug_str(l[1]) \o <<",", " ">> \o debug_list(Tail(l))

\* value.rs Display: a String prints its text, every other variant prints
\* {:?} of its collection. No command stores a Hash or a Set, so their
\* rendering (whose order is the hasher's) is kept as one token.
display(value) ==
    IF is_string(value) THEN value.s
    ELSE IF is_list(value) THEN <<"[">> \o debug_list(value.l) \o <<"]">>
    ELSE IF is_hash(value) THEN <<"{:?} of HashMap">>
    ELSE <<"{:?} of HashSet">>

RECURSIVE bulk_all(_)
bulk_all(result) ==
    IF result = <<>> THEN <<>>
    ELSE <<"$">> \o nat_string(Len(Head(result))) \o CRLF \o Head(result) \o CRLF
         \o bulk_all(Tail(result))

\* the commands whose Store method starts with self.get(key) and then works
\* on the value it returned
reads_then_writes(command) ==
    command.cmd \in {"IncrBy", "DecrBy", "Incr", "Decr", "LPush", "RPush", "LPop",
                     "RPop", "LRange", "LRem", "LIndex", "LSet", "LLen"}

\* evaluating the arguments of the Store call: DecrBy negates its operand
negates_min(command) == command.cmd = "DecrBy" /\ command.by = I64_MIN

by_of(command) ==
    CASE command.cmd = "IncrBy" -> command.by
      [] command.cmd = "DecrBy" -> wrapping(-command.by)
      [] command.cmd = "Incr" -> 1
      [] command.cmd = "Decr" -> -1

\* the Store method after its self.get(key) returned current
after_get(command, s, current, overflow_checks) ==
    CASE command.cmd \in {"IncrBy", "DecrBy", "Incr", "Decr"} ->
            incr_by_current(s, current, command.key, by_of(command), overflow_checks)
      [] command.cmd = "LPush" -> lpush_current(s, current, command.key, command.values)
      [] command.cmd = "RPush" -> rpush_current(s, current, command.key, command.values)
      [] command.cmd = "LPop" -> lpop_current(s, current, command.key)
      [] command.cmd = "RPop" -> rpop_current(s, current, command.key)
      [] command.cmd = "LRange" -> lrange_current(s, current, command.start, command.end)
      [] command.cmd = "LRem" ->
            lrem_current(s, current, command.key, command.count, command.elem,
                         overflow_checks)
      [] command.cmd = "LIndex" -> lindex_current(s, current, command.index)
      [] command.cmd = "LSet" ->
            lset_current(s, current, command.key, command.index, command.elem)
      [] command.cmd = "LLen" -> llen_current(s, current)

\* the Store method a command calls, as one call; t and t2 are the clock
\* readings the call takes
store_call(command, s, t, t2, overflow_checks) ==
    CASE command.cmd \in {"Ping", "Quit"} -> [store |-> s, res |-> Unit]
      [] command.cmd = "Set" ->
            [store |-> set(s, command.key, command.value), res |-> Unit]
      [] command.cmd \in {"Get", "Exists", "Strlen"} -> get(s, t, command.key)
      [] command.cmd = "Del" -> del(s, command.key)
      [] command.cmd = "Expire" -> expire(s, t, command.key, command.time)
      [] command.cmd = "TTL" -> ttl(s, t, t2, command.key)
      [] OTHER ->
            IF negates_min(command) /\ overflow_checks THEN [store |-> s, res |-> Panic]
            ELSE LET got == get(s, t, command.key) IN
                 after_get(command, got.store, got.res, overflow_checks)

\* the reply each match arm formats from what the Store method returned
reply(command, res) ==
    CASE command.cmd = "Ping" -> PONG
      [] command.cmd \in {"Quit", "Set"} -> OK
      [] command.cmd = "Get" ->
            IF res = None THEN NIL
            ELSE <<"$">> \o nat_string(len(res.some)) \o CRLF \o display(res.some) \o CRLF
      [] command.cmd \in {"Del", "Expire"} ->
            <<":">> \o (IF res.bool THEN <<"1">> ELSE <<"0">>) \o CRLF
      [] command.cmd = "TTL" -> <<":">> \o to_string(res.some_int) \o CRLF
      [] command.cmd = "Exists" ->
            <<":">> \o (IF res # None THEN <<"1">> ELSE <<"0">>) \o CRLF
      [] command.cmd = "Strlen" ->
            IF res = None THEN NIL
            ELSE <<":">> \o nat_string(len(res.some)) \o CRLF
      [] command.cmd \in {"IncrBy", "DecrBy", "Incr", "Decr"} ->
            IF res = None THEN ERR_NOT_INTEGER ELSE to_string(res.some_int) \o CRLF
      [] command.cmd \in {"LPush", "RPush"} -> nat_string(res.usize) \o CRLF
      [] command.cmd \in {"LPop", "RPop", "LIndex"} ->
            IF res = None THEN (IF command.cmd = "LIndex" THEN ERR_INDEX ELSE NIL)
            ELSE res.some_str \o CRLF
      [] command.cmd = "LRange" ->
            IF res = None THEN ERR_INDEX
            ELSE <<"*">> \o nat_string(Len(res.some_list)) \o CRLF \o bulk_all(res.some_list)
      [] command.cmd = "LRem" -> <<":">> \o nat_string(res.usize) \o CRLF
      [] command.cmd = "LSet" -> IF res.bool THEN OK ELSE ERR_INDEX
      [] command.cmd = "LLen" ->
            IF res = None THEN NIL ELSE nat_string(res.some_int) \o CRLF

Unwound == <<"panic">>

execute(command, s, t, t2, overflow_checks) ==
    LET r == store_call(command, s, t, t2, overflow_checks) IN
    [store |-> r.store,
     response |-> IF r.res = Panic THEN Unwound ELSE reply(command, r.res)]

\* ================================================================ state
VARIABLES
    store,      \* the one Store: [data, expiry]
    now,        \* the monotonic clock, in ticks
    last,       \* the last Store call: [op, key, arg, res]
    conn,       \* each connection task: [pc, command, current, response, overflow_checks];
                \* pc "closed": no task, or it returned Ok or panicked; "failed": it
                \* returned Err
    lock,       \* the Mutex around the Store is held
    serial      \* the Store and the replies if every command ran as one step

vars == <<store, now, last, conn, lock, serial>>
connvars == <<conn, lock, serial>>

Conns == {"c1", "c2"}
NoCommand == [cmd |-> "none"]
Idle(pc) == [pc |-> pc, command |-> NoCommand, current |-> None, response |-> <<>>,
             overflow_checks |-> FALSE]
NoReplies == [c \in Conns |-> <<>>]

ValueInputs == {String(<<"a">>), String(<<"+", "1">>), List(<<<<"a">>, <<"b">>>>),
                Hash([f \in Fields |-> <<"a">>]), HashSet({<<"a">>})}
NoArg == [noarg |-> TRUE]
PushInputs == {<<e>> : e \in Elems} \cup {<<e1, e2>> : e1 \in Elems, e2 \in Elems}
Indexes == 0..MaxLen
Counts == {-2, -1, 0, 1, 2, I64_MIN}
HashVals == {<<"a">>, <<"1">>}

Init ==
    /\ store = new
    /\ now = 0
    /\ last = [op |-> "new", key |-> <<>>, arg |-> NoArg, res |-> None]
    /\ conn = [c \in Conns |-> Idle("closed")]
    /\ lock = FALSE
    /\ serial = [store |-> new, response |-> NoReplies]

\* the call op(key, arg) returned r.res and left the store as r.store
Returned(op, key, arg, r) ==
    /\ store' = r.store
    /\ last' = [op |-> op, key |-> key, arg |-> arg, res |-> r.res]
    /\ UNCHANGED connvars

\* time passes between calls
Tick ==
    /\ now < MaxTime
    /\ now' = now + 1
    /\ UNCHANGED <<store, last, connvars>>

Call_set ==
    \E key \in Keys, value \in ValueInputs :
        /\ Returned("set", key, [value |-> value], [store |-> set(store, key, value), res |-> Unit])
        /\ UNCHANGED now

Call_get ==
    \E key \in Keys :
        /\ Returned("get", key, NoArg, get(store, now, key))
        /\ UNCHANGED now

Call_del ==
    \E key \in Keys :
        /\ Returned("del", key, NoArg, del(store, key))
        /\ UNCHANGED now

Call_expire ==
    \E key \in Keys, duration \in Secs :
        /\ Returned("expire", key, [duration |-> duration], expire(store, now, key, duration))
        /\ UNCHANGED now

\* the clock may advance between the two readings ttl takes
Call_ttl ==
    \E key \in Keys, t2 \in {now, now + 1} :
        /\ t2 <= MaxTime
        /\ Returned("ttl", key, NoArg, ttl(store, now, t2, key))
        /\ now' = t2

Call_incr_by ==
    \E key \in Keys, by \in Deltas, overflow_checks \in BOOLEAN :
        /\ Returned("incr_by", key, [by |-> by], incr_by(store, now, key, by, overflow_checks))
        /\ UNCHANGED now

Call_lpush ==
    \E key \in Keys, value \in PushInputs :
        LET r == lpush(store, now, key, value) IN
        /\ r.res.usize <= MaxLen
        /\ Returned("lpush", key, [values |-> value], r)
        /\ UNCHANGED now

Call_rpush ==
    \E key \in Keys, value \in PushInputs :
        LET r == rpush(store, now, key, value) IN
        /\ r.res.usize <= MaxLen
        /\ Returned("rpush", key, [values |-> value], r)
        /\ UNCHANGED now

Call_lpop ==
    \E key \in Keys :
        /\ Returned("lpop", key, NoArg, lpop(store, now, key))
        /\ UNCHANGED now

Call_rpop ==
    \E key \in Keys :
        /\ Returned("rpop", key, NoArg, rpop(store, now, key))
        /\ UNCHANGED now

Call_llen ==
    \E key \in Keys :
        /\ Returned("llen", key, NoArg, llen(store, now, key))
        /\ UNCHANGED now

Call_lindex ==
    \E key \in Keys, index \in Indexes :
        /\ Returned("lindex", key, [index |-> index], lindex(store, now, key, index))
        /\ UNCHANGED now

Call_lset ==
    \E key \in Keys, index \in Indexes, value \in Elems :
        /\ Returned("lset", key, [index |-> index, elem |-> value], lset(store, now, key, index, value))
        /\ UNCHANGED now

Call_lrange ==
    \E key \in Keys, start \in Indexes, end \in Indexes :
        /\ Returned("lrange", key, [start |-> start, end |-> end], lrange(store, now, key, start, end))
        /\ UNCHANGED now

Call_lrem ==
    \E key \in Keys, count \in Counts, value \in Elems, overflow_checks \in BOOLEAN :
        /\ Returned("lrem", key, [count |-> count, elem |-> value],
                    lrem(store, now, key, count, value, overflow_checks))
        /\ UNCHANGED now

Call_hset ==
    \E key \in Keys, field \in Fields, value \in HashVals :
        /\ Returned("hset", key, [field |-> field, hval |-> value], hset(store, now, key, field, value))
        /\ UNCHANGED now

Call_hget ==
    \E key \in Keys, field \in Fields :
        /\ Returned("hget", key, [field |-> field], hget(store, now, key, field))
        /\ UNCHANGED now

Call_hdel ==
    \E key \in Keys, field \in Fields :
        /\ Returned("hdel", key, [field |-> field], hdel(store, now, key, field))
        /\ UNCHANGED now

Call_hlen ==
    \E key \in Keys :
        /\ Returned("hlen", key, NoArg, hlen(store, now, key))
        /\ UNCHANGED now

Call_hget_all ==
    \E key \in Keys :
        /\ Returned("hget_all", key, NoArg, hget_all(store, now, key))
        /\ UNCHANGED now

Call_hincr_by ==
    \E key \in Keys, field \in Fields, by \in Deltas, overflow_checks \in BOOLEAN :
        /\ Returned("hincr_by", key, [field |-> field, by |-> by],
                    hincr_by(store, now, key, field, by, overflow_checks))
        /\ UNCHANGED now

Next ==
    \/ Tick
    \/ Call_set \/ Call_get \/ Call_del \/ Call_expire \/ Call_ttl \/ Call_incr_by
    \/ Call_lpush \/ Call_rpush \/ Call_lpop \/ Call_rpop \/ Call_llen
    \/ Call_lindex \/ Call_lset \/ Call_lrange \/ Call_lrem
    \/ Call_hset \/ Call_hget \/ Call_hdel \/ Call_hlen \/ Call_hget_all \/ Call_hincr_by

Spec == Init /\ [][Next]_vars

\* ------------------------------------------------ server.rs: connections
\* the request lines a client sends
Lines == {<<"S", "E", "T", " ", "k", " ", "1", "\n">>,
          <<"I", "N", "C", "R", "B", "Y", " ", "k", " ", "2", "\n">>,
          <<"e", "x", "p", "i", "r", "e", " ", "k", " ", "0", "\r", "\n">>,
          <<"R", "P", "U", "S", "H", " ", "j", " ", "a", "\n">>,
          <<"L", "P", "O", "P", " ", "j", "\n">>,
          <<"Q", "U", "I", "T", "\n">>,
          <<"I", "N", "C", "R", "\n">>,
          <<"N", "O", "P", "E", " ", "k", "\n">>,
          <<"E", "X", "P", "I", "R", "E", " ", "k", " ", "x", "\n">>}

is_push(command) == command.cmd \in {"LPush", "RPush"}

RECURSIVE pushes_in_flight(_, _)
pushes_in_flight(cs, key) ==
    IF cs = {} THEN 0
    ELSE LET c == CHOOSE x \in cs : TRUE
             n == IF /\ conn[c].pc \in {"lock", "exec", "rest"}
                     /\ is_push(conn[c].command)
                     /\ conn[c].command.key = key
                  THEN Len(conn[c].command.values) ELSE 0
         IN  n + pushes_in_flight(cs \ {c}, key)

\* lists stay within MaxLen: a push is only read when it still fits
PushFits(command) ==
    is_push(command) =>
        LET key == command.key
            held == IF key \in DOMAIN store.data /\ is_list(store.data[key])
                    THEN Len(store.data[key].l) ELSE 0
        IN  held + pushes_in_flight(Conns, key) + Len(command.values) <= MaxLen

\* mutant of can_lock: the lock is granted while it is held
can_lock_while_held(locked) == TRUE

\* db.lock().await resumes only when no task holds the guard
can_lock(locked) == ~locked

\* listener.accept() and tokio::spawn(handle_connection)
Accept(c) ==
    /\ conn[c].pc \in {"closed", "failed"}
    /\ conn' = [conn EXCEPT ![c] = Idle("read")]
    /\ UNCHANGED <<store, now, last, lock, serial>>

\* read_line returned a line; Command::parse runs on it without the lock
ReadLineFrom(c, lines) ==
    /\ conn[c].pc = "read"
    /\ \E line \in lines :
        LET parsed == parse(line) IN
        IF "err" \in DOMAIN parsed
        THEN conn' = [conn EXCEPT ![c].pc = "reject",
                                  ![c].response = <<"E", "R", "R", " ">> \o parsed.err
                                                  \o <<"\n">>]
        ELSE /\ PushFits(parsed.command)
             /\ conn' = [conn EXCEPT ![c].pc = "lock", ![c].command = parsed.command]
    /\ UNCHANGED <<store, now, last, lock, serial>>

ReadLine(c) == ReadLineFrom(c, Lines)

\* read_line returned 0 bytes (break, Ok) or an error (Err)
Hangup(c) ==
    /\ conn[c].pc = "read"
    /\ \E eof \in BOOLEAN :
        conn' = [conn EXCEPT ![c] = Idle(IF eof THEN "closed" ELSE "failed")]
    /\ UNCHANGED <<store, now, last, lock, serial>>

\* mutant of Reject: the task ends after the error reply
Reject_then_close(c) ==
    /\ conn[c].pc = "reject"
    /\ conn' = [conn EXCEPT ![c] = Idle("closed")]
    /\ UNCHANGED <<store, now, last, lock, serial>>

\* the reply to a line that did not parse; a failed write ends the task
Reject(c) ==
    /\ conn[c].pc = "reject"
    /\ \E written \in BOOLEAN :
        conn' = [conn EXCEPT ![c] = Idle(IF written THEN "read" ELSE "failed")]
    /\ UNCHANGED <<store, now, last, lock, serial>>

Acquire(c) ==
    /\ conn[c].pc = "lock"
    /\ can_lock(lock)
    /\ lock' = TRUE
    /\ conn' = [conn EXCEPT ![c].pc = "exec"]
    /\ UNCHANGED <<store, now, last, serial>>

\* command.execute up to and including its first access to the Store.
\* serial takes the whole command here, as one step.
ExecFirst(c) ==
    /\ conn[c].pc = "exec"
    /\ \E overflow_checks \in BOOLEAN :
       \E t2 \in (IF conn[c].command.cmd = "TTL" THEN {now, now + 1} ELSE {now}) :
        LET command == conn[c].command
            whole == execute(command, serial.store, now, t2, overflow_checks)
        IN  /\ t2 <= MaxTime
            /\ now' = t2
            /\ serial' = [store |-> whole.store,
                          response |-> [serial.response EXCEPT ![c] = whole.response]]
            /\ IF reads_then_writes(command)
               THEN IF negates_min(command) /\ overflow_checks
                    THEN /\ conn' = [conn EXCEPT ![c] = Idle("closed")]
                         /\ lock' = FALSE
                         /\ UNCHANGED store
                    ELSE LET got == get(store, now, command.key) IN
                         /\ store' = got.store
                         /\ conn' = [conn EXCEPT ![c].pc = "rest",
                                                 ![c].current = got.res,
                                                 ![c].overflow_checks = overflow_checks]
                         /\ UNCHANGED lock
               ELSE LET r == store_call(command, store, now, t2, overflow_checks) IN
                    /\ store' = r.store
                    /\ conn' = [conn EXCEPT ![c].pc = "write",
                                            ![c].response = reply(command, r.res)]
                    /\ UNCHANGED lock
    /\ UNCHANGED last

\* the rest of the Store method, on the value its get returned; a panic
\* unwinds the task, which drops the guard
ExecRest(c) ==
    /\ conn[c].pc = "rest"
    /\ LET command == conn[c].command
           r == after_get(command, store, conn[c].current, conn[c].overflow_checks)
       IN  /\ store' = r.store
           /\ IF r.res = Panic
              THEN /\ conn' = [conn EXCEPT ![c] = Idle("closed")]
                   /\ lock' = FALSE
                   /\ serial' = [serial EXCEPT !.response[c] = <<>>]
              ELSE /\ conn' = [conn EXCEPT ![c].pc = "write",
                                           ![c].current = None,
                                           ![c].overflow_checks = FALSE,
                                           ![c].response = reply(command, r.res)]
                   /\ UNCHANGED <<lock, serial>>
    /\ UNCHANGED <<now, last>>

\* mutant of WriteReply: a failed write leaves the guard alive
WriteReply_leaks(c) ==
    /\ conn[c].pc = "write"
    /\ \E written \in BOOLEAN :
        /\ conn' = [conn EXCEPT ![c] =
                       Idle(IF ~written THEN "failed"
                            ELSE IF is_quit(conn[c].command) THEN "closed" ELSE "read")]
        /\ lock' = ~written
    /\ serial' = [serial EXCEPT !.response[c] = <<>>]
    /\ UNCHANGED <<store, now, last>>

\* write_all of the response, then the end of the iteration, the break on
\* QUIT or the return on a failed write: each drops the guard
WriteReply(c) ==
    /\ conn[c].pc = "write"
    /\ \E written \in BOOLEAN :
        conn' = [conn EXCEPT ![c] =
                    Idle(IF ~written THEN "failed"
                         ELSE IF is_quit(conn[c].command) THEN "closed" ELSE "read")]
    /\ lock' = FALSE
    /\ serial' = [serial EXCEPT !.response[c] = <<>>]
    /\ UNCHANGED <<store, now, last>>

NextConn ==
    \/ Tick
    \/ \E c \in Conns : Accept(c)
    \/ \E c \in Conns : ReadLine(c)
    \/ \E c \in Conns : Hangup(c)
    \/ \E c \in Conns : Reject(c)
    \/ \E c \in Conns : Acquire(c)
    \/ \E c \in Conns : ExecFirst(c)
    \/ \E c \in Conns : ExecRest(c)
    \/ \E c \in Conns : WriteReply(c)

SpecConn == Init /\ [][NextConn]_vars

\* The lock protocol on its own: clients that send only a SET, an INCRBY
\* (which can panic), a QUIT and a line that does not parse.  No step of
\* the protocol reads the clock, which stands still here.
LockLines == {<<"S", "E", "T", " ", "k", " ", "1", "\n">>,
              <<"I", "N", "C", "R", "B", "Y", " ", "k", " ", "2", "\n">>,
              <<"Q", "U", "I", "T", "\n">>,
              <<"I", "N", "C", "R", "\n">>}

ReadLockLine(c) == ReadLineFrom(c, LockLines)

NextLock ==
    \/ \E c \in Conns : Accept(c)
    \/ \E c \in Conns : ReadLockLine(c)
    \/ \E c \in Conns : Hangup(c)
    \/ \E c \in Conns : Reject(c)
    \/ \E c \in Conns : Acquire(c)
    \/ \E c \in Conns : ExecFirst(c)
    \/ \E c \in Conns : ExecRest(c)
    \/ \E c \in Conns : WriteReply(c)

\* command.execute is straight-line code and runs to its end; the write of
\* a reply completes or fails; the tokio Mutex queues its waiters, so a
\* task that keeps waiting is granted the lock
SpecLockFair ==
    /\ Init /\ [][NextLock]_vars
    /\ \A c \in Conns :
        /\ WF_vars(ExecFirst(c))
        /\ WF_vars(ExecRest(c))
        /\ WF_vars(WriteReply(c))
        /\ SF_vars(Acquire(c))

\* ============================================================== claims
\* key is logically present: it has a value and its expiration instant,
\* if it has one, has not passed at time t
Live(s, t, key) ==
    key \in DOMAIN s.data /\ ~(key \in DOMAIN s.expiry /\ t > s.expiry[key])

\* a step in which only the clock moves
TickStep == now' = now + 1 /\ store' = store /\ last' = last
\* the step is a call of op
Calls(op) == last'.op = op /\ ~TickStep

\* C1: set(k, v) followed by get(k), at the same instant or later, returns
\* v, whatever k held before the set (nothing, any variant, an expiration
\* still running or already passed).
C1_SetThenGet ==
    [][(last.op = "set" /\ Calls("get") /\ last'.key = last.key)
          => last'.res = Some(last.arg.value)]_vars

\* a get that returned a value only set can have stored (a Set variant)
C1_Witness ==
    /\ last.op = "get"
    /\ last.res = Some(HashSet({<<"a">>}))
    /\ now > 0

\* C2: command execution is store-wide atomic and totally ordered.  At most
\* one connection task is between taking the lock and dropping it, and the
\* lock is held exactly then; the Store changes only in a step of the task
\* that holds the lock; and whenever no command is part-way through, the
\* Store equals the Store that the same commands produce when each runs as
\* one step in the order the lock was granted, with the same replies.
Holders == {c \in Conns : conn[c].pc \in {"exec", "rest", "write"}}
C2_Atomic ==
    /\ [](/\ Cardinality(Holders) <= 1
          /\ lock = (Holders # {})
          /\ (\A c \in Conns : conn[c].pc # "rest") => store = serial.store
          /\ \A c \in Conns :
                conn[c].pc = "write" => conn[c].response = serial.response[c])
    /\ [][store' # store =>
            \E c \in Holders : lock /\ conn'[c] # conn[c] /\ conn[c].pc \in {"exec", "rest"}]_vars
C2_Witness ==
    \E c \in Conns, d \in Conns :
        /\ c # d
        /\ conn[c].pc = "rest" /\ conn[c].command = IncrBy(<<"k">>, 2)
        /\ conn[d].pc = "lock" /\ conn[d].command = IncrBy(<<"k">>, 2)
        /\ store # serial.store

\* C3: every key of the expiration mapping is a key of the value mapping.
C3_ExpiryHasValue == DOMAIN store.expiry \subseteq DOMAIN store.data

\* an expiration is recorded, and its instant has passed without a purge
C3_Witness ==
    \E key \in Keys :
        key \in DOMAIN store.expiry /\ now > store.expiry[key] /\ last.op # "expire"

\* C4: after expire(k, 0) on an existing key the next get(k) returns absent
\* and the next ttl(k) returns -2, at the same instant or any later one.
C4_ExpireZero ==
    [][(/\ last.op = "expire" /\ last.arg.duration = 0 /\ last.res = Bool(TRUE)
        /\ last'.key = last.key /\ ~TickStep)
          => /\ (last'.op = "get" => last'.res = None)
             /\ (last'.op = "ttl" => last'.res = SomeInt(-2))]_vars

\* C5: ttl(k) is -2 when k does not exist (its expiration instant having
\* passed included, and then the call purges k), -1 when k exists without an
\* expiration, and otherwise the remaining whole seconds, never negative.
C5_TtlTable ==
    [][Calls("ttl") =>
         LET key == last'.key IN
         IF ~Live(store, now, key)
         THEN last'.res = SomeInt(-2) /\ key \notin DOMAIN store'.data
         ELSE IF key \notin DOMAIN store.expiry
         THEN last'.res = SomeInt(-1)
         ELSE /\ \E u \in {now, now'} :
                    last'.res = SomeInt(as_secs(duration_since(store.expiry[key], u)))
              /\ last'.res.some_int >= 0]_vars

\* C6: del(k) returns true iff k existed before the call, a key whose
\* expiration instant has passed counting as not existing; afterwards k has
\* neither value nor expiration and get(k) returns absent.
C6_Delete ==
    [][Calls("del") =>
         LET key == last'.key IN
         /\ last'.res = Bool(Live(store, now, key))
         /\ key \notin DOMAIN store'.data
         /\ key \notin DOMAIN store'.expiry
         /\ get(store', now', key).res = None]_vars

\* C7: expire(k, seconds) on an existing key sets its expiration to
\* now + seconds and returns true; on a key that does not exist, its
\* expiration instant having passed included, it returns false and leaves
\* the store unchanged.
C7_Expire ==
    [][Calls("expire") =>
         LET key == last'.key IN
         IF Live(store, now, key)
         THEN /\ last'.res = Bool(TRUE)
              /\ store'.data = store.data
              /\ key \in DOMAIN store'.expiry
              /\ store'.expiry[key] = now + last'.arg.duration * TicksPerSec
         ELSE last'.res = Bool(FALSE) /\ store' = store]_vars

\* the value is not Text that parses as an integer
NonNumeric(value) == ~is_string(value) \/ ~parse_i64(value.s).ok

\* C8: incr_by on a key holding non-numeric Text or a List, Hash or Set
\* fails and leaves the store, the value and the expiration of the key
\* included, as it was.
C8_IncrFailsCleanly ==
    [][(/\ Calls("incr_by")
        /\ Live(store, now, last'.key)
        /\ NonNumeric(store.data[last'.key]))
          => last'.res = None /\ store' = store]_vars

\* a failed incr_by on a key that keeps its non-numeric value and its
\* running expiration
C8_Witness ==
    /\ last.op = "incr_by"
    /\ last.res = None
    /\ last.key \in DOMAIN store.data
    /\ last.key \in DOMAIN store.expiry
    /\ now <= store.expiry[last.key]
    /\ NonNumeric(store.data[last.key])

\* C9: incr_by(k, delta) on an absent key stores delta as Text and returns
\* delta; on integer Text n it stores n + delta as Text and returns it.
C9_Increment ==
    [][Calls("incr_by") =>
         LET key == last'.key
             by == last'.arg.by
         IN  IF ~Live(store, now, key)
             THEN /\ last'.res = SomeInt(by)
                  /\ key \in DOMAIN store'.data
                  /\ store'.data[key] = String(to_string(by))
             ELSE (~NonNumeric(store.data[key])
                   /\ in_i64(parse_i64(store.data[key].s).v + by))
                  => LET sum == parse_i64(store.data[key].s).v + by IN
                     /\ last'.res = SomeInt(sum)
                     /\ key \in DOMAIN store'.data
                     /\ store'.data[key] = String(to_string(sum))]_vars

\* the call reported failure or absence
Failed(l) ==
    \/ l.op = "incr_by" /\ l.res = None
    \/ l.op = "lset" /\ l.res = Bool(FALSE)
    \/ l.op \in {"lindex", "lrange", "lpop", "rpop"} /\ l.res = None
    \/ l.op = "lrem" /\ l.res = Usize(0)
    \/ l.op = "hdel" /\ l.res = Bool(FALSE)

\* key has the same value and the same expiration in s2 as in s1
SameEntry(s1, s2, key) ==
    /\ (key \in DOMAIN s1.data) = (key \in DOMAIN s2.data)
    /\ key \in DOMAIN s1.data => s2.data[key] = s1.data[key]
    /\ (key \in DOMAIN s1.expiry) = (key \in DOMAIN s2.expiry)
    /\ key \in DOMAIN s1.expiry => s2.expiry[key] = s1.expiry[key]

\* C10: a call that reports failure or absence leaves the value and the
\* expiration of every key that has not expired as they were.
C10_NoFailedMutation ==
    [][(~TickStep /\ Failed(last'))
          => \A key \in Keys : Live(store, now, key) => SameEntry(store, store', key)]_vars

\* the list a live key holds, or the empty list a push starts from
LiveList(s, t, key) ==
    IF Live(s, t, key) /\ is_list(s.data[key]) THEN s.data[key].l ELSE <<>>

Reverse(seq) == [i \in 1..Len(seq) |-> seq[Len(seq) + 1 - i]]

\* C11: rpush(k, [v1..vn]) leaves the old elements, in their order, followed
\* by v1..vn; lpush(k, [v1..vn]) leaves vn..v1 followed by the old elements
\* in their order; both return the old length plus n.
C11_PushOrder ==
    [][(Calls("rpush") \/ Calls("lpush")) =>
         LET key == last'.key
             old == LiveList(store, now, key)
             values == last'.arg.values
         IN  /\ key \in DOMAIN store'.data
             /\ store'.data[key] = List(IF last'.op = "rpush" THEN old \o values
                                        ELSE Reverse(values) \o old)
             /\ last'.res = Usize(Len(old) + Len(values))]_vars

\* an lpush of two different values in front of an element already there
C11_Witness ==
    /\ last.op = "lpush"
    /\ last.arg.values = <<<<"a">>, <<"b">>>>
    /\ last.res = Usize(3)
    /\ store.data[last.key] = List(<<<<"b">>, <<"a">>, <<"b">>>>)

\* list without its first k occurrences of x
RECURSIVE WithoutFirst(_, _, _)
WithoutFirst(list, x, k) ==
    IF list = <<>> \/ k = 0 THEN list
    ELSE IF Head(list) = x THEN WithoutFirst(Tail(list), x, k - 1)
    ELSE <<Head(list)>> \o WithoutFirst(Tail(list), x, k)

WithoutLast(list, x, k) == Reverse(WithoutFirst(Reverse(list), x, k))
Min(a, b) == IF a < b THEN a ELSE b
Abs(n) == IF n < 0 THEN -n ELSE n

\* C12: lrem(k, count, x) on a list with m occurrences of x removes the
\* min(count, m) occurrences nearest the front when count > 0, the
\* min(|count|, m) nearest the back when count < 0 and all m when count = 0;
\* it returns the number removed and the other elements keep their order.
C12_Lrem ==
    [][(Calls("lrem") /\ Live(store, now, last'.key) /\ is_list(store.data[last'.key])) =>
         LET key == last'.key
             list == store.data[key].l
             x == last'.arg.elem
             count == last'.arg.count
             m == count_eq(list, x)
             k == IF count = 0 THEN m ELSE Min(Abs(count), m)
         IN  /\ last'.res = Usize(k)
             /\ key \in DOMAIN store'.data
             /\ store'.data[key] = List(IF count < 0 THEN WithoutLast(list, x, k)
                                        ELSE WithoutFirst(list, x, k))]_vars

\* C13: lrange(k, start, end) returns the end - start + 1 elements at
\* positions start..end, in list order, exactly when k holds a List,
\* start < end and end < length; in every other case (start = end,
\* start > end, an index out of bounds, no List) it returns absence; a live
\* key is left as it was in both cases.
C13_Lrange ==
    [][Calls("lrange") =>
         LET key == last'.key
             start == last'.arg.start
             end == last'.arg.end
             list == LiveList(store, now, key)
             accepted == /\ Live(store, now, key) /\ is_list(store.data[key])
                         /\ start < end /\ end < Len(list)
         IN  /\ IF accepted
                THEN /\ last'.res = SomeList([i \in 1..(end - start + 1) |-> list[start + i]])
                     /\ Len(last'.res.some_list) = end - start + 1
                ELSE last'.res = None
             /\ Live(store, now, key) => store' = store]_vars

\* lrange(k, 2, 2) was rejected on a list of length 3, which is still there
C13_Witness ==
    /\ last.op = "lrange"
    /\ last.arg = [start |-> 2, end |-> 2]
    /\ last.res = None
    /\ last.key \in DOMAIN store.data
    /\ is_list(store.data[last.key])
    /\ Len(store.data[last.key].l) = 3

\* C14: on a non-empty list lpop removes and returns the front element and
\* rpop the back element, the other elements staying in order (so the
\* length drops by one); on a missing key, a value that is not a List or an
\* empty list both return absence.
C14_Pop ==
    [][(Calls("lpop") \/ Calls("rpop")) =>
         LET key == last'.key
             list == LiveList(store, now, key)
         IN  IF list # <<>>
             THEN /\ last'.res = SomeStr(IF last'.op = "lpop" THEN list[1] ELSE list[Len(list)])
                  /\ key \in DOMAIN store'.data
                  /\ store'.data[key] = List(IF last'.op = "lpop"
                                             THEN SubSeq(list, 2, Len(list))
                                             ELSE SubSeq(list, 1, Len(list) - 1))
                  /\ Len(store'.data[key].l) = Len(list) - 1
             ELSE last'.res = None]_vars

\* an rpop that took the back element b and left a in front
C14_Witness ==
    /\ last.op = "rpop"
    /\ last.res = SomeStr(<<"b">>)
    /\ store.data[last.key] = List(<<<<"a">>, <<"a">>>>)

\* C18: lpush or rpush on a key that is absent or holds Text, a Hash or a
\* Set leaves a List of just the pushed values and returns their number;
\* no other call changes the variant of a stored value (set, which stores
\* the value it is given, aside), and incr_by, lpop, rpop, lset and lrem on
\* a key of the wrong variant leave the store as it was.
C18_Variants ==
    [][~TickStep =>
         LET key == last'.key
             op == last'.op
             live == Live(store, now, key)
         IN  /\ (op \in {"lpush", "rpush"} /\ ~(live /\ is_list(store.data[key]))) =>
                    /\ key \in DOMAIN store'.data
                    /\ store'.data[key] =
                          List(IF op = "rpush" THEN last'.arg.values
                               ELSE Reverse(last'.arg.values))
                    /\ last'.res = Usize(Len(last'.arg.values))
             /\ (op \notin {"set", "lpush", "rpush"} /\ live /\ key \in DOMAIN store'.data) =>
                    store'.data[key].tag = store.data[key].tag
             /\ (op \in {"lpop", "rpop", "lset", "lrem"} /\ live /\ ~is_list(store.data[key])) =>
                    store' = store
             /\ (op = "incr_by" /\ live /\ ~is_string(store.data[key])) =>
                    store' = store]_vars

\* the time has passed the expiration instant of key
Expired(s, t, key) == key \in DOMAIN s.expiry /\ t > s.expiry[key]

\* s with neither value nor expiration for key
Without(s, key) == [data |-> map_remove(s.data, key), expiry |-> map_remove(s.expiry, key)]

\* the calls that access a key and honour its expiration
Accesses == {"get", "ttl", "incr_by", "lpush", "rpush", "lpop", "rpop", "llen", "lindex",
             "lset", "lrange", "lrem", "hset", "hget", "hdel", "hlen", "hget_all",
             "hincr_by"}

\* what the call recorded in l does on the store s
Outcome(l, s, t, t2, overflow_checks) ==
    LET key == l.key
        arg == l.arg
    IN  CASE l.op = "get" -> get(s, t, key)
          [] l.op = "ttl" -> ttl(s, t, t2, key)
          [] l.op = "incr_by" -> incr_by(s, t, key, arg.by, overflow_checks)
          [] l.op = "lpush" -> lpush(s, t, key, arg.values)
          [] l.op = "rpush" -> rpush(s, t, key, arg.values)
          [] l.op = "lpop" -> lpop(s, t, key)
          [] l.op = "rpop" -> rpop(s, t, key)
          [] l.op = "llen" -> llen(s, t, key)
          [] l.op = "lindex" -> lindex(s, t, key, arg.index)
          [] l.op = "lset" -> lset(s, t, key, arg.index, arg.elem)
          [] l.op = "lrange" -> lrange(s, t, key, arg.start, arg.end)
          [] l.op = "lrem" -> lrem(s, t, key, arg.count, arg.elem, overflow_checks)
          [] l.op = "hset" -> hset(s, t, key, arg.field, arg.hval)
          [] l.op = "hget" -> hget(s, t, key, arg.field)
          [] l.op = "hdel" -> hdel(s, t, key, arg.field)
          [] l.op = "hlen" -> hlen(s, t, key)
          [] l.op = "hget_all" -> hget_all(s, t, key)
          [] l.op = "hincr_by" -> hincr_by(s, t, key, arg.field, arg.by, overflow_checks)

\* C19: once the time has passed the expiration instant of a key, every
\* call that accesses the key returns what it returns for an absent key
\* and leaves the store it leaves from the store without the key, so the
\* first access removes the expired value and expiration; and a key leaves
\* the value mapping only in a call on that key.
C19_LazyExpiration ==
    [][/\ (~TickStep /\ last'.op \in Accesses /\ Expired(store, now, last'.key)) =>
            \E t2 \in {now, now'}, overflow_checks \in BOOLEAN :
                [store |-> store', res |-> last'.res]
                    = Outcome(last', Without(store, last'.key), now, t2, overflow_checks)
       /\ \A key \in DOMAIN store.data \ DOMAIN store'.data :
            ~TickStep /\ last'.key = key]_vars

StartsWith(r, prefix) == Len(r) >= Len(prefix) /\ SubSeq(r, 1, Len(prefix)) = prefix
EndsWith(r, suffix) ==
    Len(r) >= Len(suffix) /\ SubSeq(r, Len(r) - Len(suffix) + 1, Len(r)) = suffix
AllDigits(w) == w # <<>> /\ \A i \in 1..Len(w) : IsDigit(w[i])

\* -ERR <message>\r\n
IsErrorReply(r) == StartsWith(r, <<"-", "E", "R", "R", " ">>) /\ EndsWith(r, CRLF)

\* :<n>\r\n
IsIntegerReply(r) ==
    /\ StartsWith(r, <<":">>) /\ EndsWith(r, CRLF)
    /\ LET n == SubSeq(r, 2, Len(r) - 2) IN
       AllDigits(n) \/ (StartsWith(n, <<"-">>) /\ AllDigits(Tail(n)))

\* $<len>\r\n<data>\r\n
IsBulkReply(r) ==
    /\ StartsWith(r, <<"$">>) /\ EndsWith(r, CRLF)
    /\ \E i \in 3..Len(r) :
        /\ AllDigits(SubSeq(r, 2, i - 1))
        /\ SubSeq(r, i, i + 1) = CRLF
        /\ Len(r) = i + 1 + digits_value(SubSeq(r, 2, i - 1)) + 2

IntegerCommands == {"Del", "Expire", "TTL", "Exists", "Strlen", "Incr", "Decr", "IncrBy",
                    "DecrBy", "LPush", "RPush", "LLen", "LRem"}
StringCommands == {"Get", "LPop", "RPop", "LIndex"}

\* C15: every reply is encoded by its kind: the reply to a line that does
\* not parse, like every error, is -ERR <message>\r\n; the reply of a
\* command with an integer result is :<n>\r\n, of one with a string result
\* $<len>\r\n<data>\r\n, or $-1\r\n when the result is absent, unless the
\* command failed with an error reply.
C15_ReplyEncoding ==
    \A c \in Conns :
        /\ conn[c].pc = "reject" => IsErrorReply(conn[c].response)
        /\ (conn[c].pc = "write" /\ conn[c].command.cmd \in IntegerCommands) =>
              \/ IsIntegerReply(conn[c].response)
              \/ IsErrorReply(conn[c].response)
              \/ conn[c].response = NIL
        /\ (conn[c].pc = "write" /\ conn[c].command.cmd \in StringCommands) =>
              \/ IsBulkReply(conn[c].response)
              \/ IsErrorReply(conn[c].response)
              \/ conn[c].response = NIL

\* request lines with an unknown verb, a wrong argument count, a numeric
\* argument that is not an integer
Malformed == {<<"N", "O", "P", "E", " ", "k", "\n">>,
              <<"I", "N", "C", "R", "\n">>,
              <<"E", "X", "P", "I", "R", "E", " ", "k", " ", "x", "\n">>}

\* the error replies that the lines which do not parse are answered with
ParseErrorReplies ==
    {<<"E", "R", "R", " ">> \o parse(line).err \o <<"\n">> :
        line \in {l \in Lines : "err" \in DOMAIN parse(l)}}
MalformedRejected == \A line \in Malformed : line \in Lines /\ "err" \in DOMAIN parse(line)

\* C16: a request line with an unknown verb, a wrong argument count or a
\* non-integer numeric argument does not parse; the connection then writes
\* one error reply naming the parse error, without a step that takes the
\* lock or changes the store, and once the reply is written it is back
\* where it reads the next request line (it ends only if the write fails).
C16_ParseError ==
    [][/\ MalformedRejected
       /\ \A c \in Conns :
            /\ (conn[c].pc = "read" /\ conn'[c].pc \notin {"read", "closed", "failed"}) =>
                  \/ conn'[c].pc = "lock" /\ conn'[c].response = <<>>
                  \/ /\ conn'[c].pc = "reject"
                     /\ conn'[c].response \in ParseErrorReplies
                     /\ store' = store /\ lock' = lock
            /\ (conn[c].pc = "reject" /\ conn'[c] # conn[c]) =>
                  /\ conn'[c] \in {Idle("read"), Idle("failed")}
                  /\ store' = store /\ lock' = lock]_vars

\* the error reply to a non-integer argument is ready while the other
\* connection holds the lock
C16_Witness ==
    \E c \in Conns :
        /\ conn[c].pc = "reject"
        /\ conn[c].response = <<"E", "R", "R", " ", "Invalid time", "\n">>
        /\ lock
        /\ store # new

QuitParses == parse(<<"Q", "U", "I", "T", "\n">>) = Ok(Quit)

\* C17: QUIT parses to Quit; a connection executing it takes the lock,
\* gets the reply +OK\r\n without any change of the store, and with the
\* write of that reply (or its failure) the task ends and the lock is
\* free: the connection never returns to reading a request line.
C17_Quit ==
    [][/\ QuitParses
       /\ \A c \in Conns :
            (conn[c].command = Quit /\ conn'[c] # conn[c]) =>
                /\ store' = store
                /\ conn[c].pc = "lock" => conn'[c].pc = "exec" /\ lock'
                /\ conn[c].pc = "exec" =>
                      conn'[c].pc = "write" /\ conn'[c].response = OK /\ lock'
                /\ conn[c].pc = "write" =>
                      conn'[c] \in {Idle("closed"), Idle("failed")} /\ ~lock']_vars

\* the reply to QUIT is about to be written while the other connection
\* waits for the lock
C17_Witness ==
    \E c \in Conns, d \in Conns :
        /\ conn[c].pc = "write" /\ conn[c].command = Quit
        /\ conn[d].pc = "lock"
        /\ store # new

\* C20: the lock is held exactly while one connection is between taking it
\* and the end of its reply write, so never by a connection that waits for
\* the lock, reads a line or has ended; and a connection that waits for
\* the lock gets it.
C20_LockLive ==
    /\ [](/\ lock = (Holders # {})
          /\ \A c \in Conns :
                conn[c].pc \in {"read", "reject", "lock", "closed", "failed"} =>
                    c \notin Holders)
    /\ \A c \in Conns : (conn[c].pc = "lock") ~> (conn[c].pc = "exec")

\* a connection waits for the lock that the other one holds for a reply
\* not yet written
C20_Witness ==
    \E c \in Conns, d \in Conns :
        /\ conn[c].pc = "lock"
        /\ conn[d].pc = "write"
        /\ lock

\* the call recorded in l, made on the store s at time t, reached its
\* self.set(key, ...)
Wrote(l, s, t) ==
    LET live == Live(s, t, l.key) IN
    \/ l.op \in {"set", "lpush", "rpush", "hset"}
    \/ l.op \in {"incr_by", "hincr_by"} /\ l.res # None /\ l.res # Panic
    \/ l.op \in {"lpop", "rpop"} /\ live /\ is_list(s.data[l.key])
    \/ l.op = "lrem" /\ live /\ is_list(s.data[l.key]) /\ l.res # Panic
    \/ l.op = "lset" /\ l.res = Bool(TRUE)
    \/ l.op = "hdel" /\ live /\ is_hash(s.data[l.key])

\* C21: a call that writes its key back leaves the key with a value and
\* without expiration, so that ttl answers -1 and get finds the value at
\* every later time; an expiration appears or changes only in expire; and
\* one disappears only in del, in ttl, in a call that writes the key back,
\* or in the get (called directly or as the first step of a call on the
\* key) that finds its instant passed.
C21_WritesClearExpiry ==
    [][~TickStep =>
         LET key == last'.key IN
         /\ Wrote(last', store, now) =>
                /\ key \in DOMAIN store'.data
                /\ key \notin DOMAIN store'.expiry
                /\ \A t \in now'..(MaxTime + 1) :
                      /\ ttl(store', t, t, key) = [store |-> store', res |-> SomeInt(-1)]
                      /\ get(store', t, key) = [store |-> store', res |-> Some(store'.data[key])]
         /\ \A k \in DOMAIN store'.expiry :
                (k \notin DOMAIN store.expiry \/ store'.expiry[k] # store.expiry[k]) =>
                    last'.op = "expire" /\ k = key
         /\ \A k \in DOMAIN store.expiry \ DOMAIN store'.expiry :
                /\ k = key
                /\ \/ last'.op \in {"del", "ttl"}
                   \/ Wrote(last', store, now)
                   \/ last'.op \in Accesses /\ Expired(store, now, k)]_vars

\* an hdel that took no field wrote the Hash back, and the expiration the
\* key could have had is gone
C21_Witness ==
    /\ last.op = "hdel"
    /\ last.res = Bool(FALSE)
    /\ last.key \in DOMAIN store.data
    /\ is_hash(store.data[last.key])
    /\ last.key \notin DOMAIN store.expiry
    /\ now > 0

\* C22: when the integer a key holds plus the delta of INCR, DECR, INCRBY
\* or DECRBY is outside the signed 64-bit range, or DECRBY is given the
\* minimum value, which has no negation, the command replies -ERR value is
\* not an integer or out of range and the store stays as it was: no wrapped
\* sum is stored and the connection task does not fault.
C22_IncrementRange ==
    [][\A c \in Conns :
         LET command == conn[c].command
             current == conn[c].current
         IN  /\ (/\ conn[c].pc = "rest" /\ conn'[c] # conn[c]
                 /\ command.cmd \in {"Incr", "Decr", "IncrBy", "DecrBy"}
                 /\ current # None
                 /\ ~NonNumeric(current.some)
                 /\ LET delta == CASE command.cmd = "Incr" -> 1
                                   [] command.cmd = "Decr" -> -1
                                   [] command.cmd = "IncrBy" -> command.by
                                   [] command.cmd = "DecrBy" -> -command.by
                    IN  ~in_i64(delta) \/ ~in_i64(parse_i64(current.some.s).v + delta))
                  => /\ conn'[c].pc = "write"
                     /\ conn'[c].response = ERR_NOT_INTEGER
                     /\ store' = store
             /\ (/\ conn[c].pc = "exec" /\ conn'[c] # conn[c]
                 /\ command.cmd = "DecrBy" /\ command.by = I64_MIN)
                  => conn'[c].pc \in {"rest", "write"} /\ store' = store]_vars

====
